---- MODULE Spec2Model ----
(***************************************************************************)
(* Model of scripts/autoapprove/autoapprove.py: the loopback-only          *)
(* argument validator (validate_network_args and its helpers) and the      *)
(* execute-capture-report pipeline (main, create_report_directory,         *)
(* run_command).                                                           *)
(*                                                                         *)
(* A character is a one-character string; a token (one command-line        *)
(* argument) is a sequence of characters.  The regular expressions of the  *)
(* source are written out as predicates over such sequences.  Tokens hold  *)
(* ASCII characters only and no line break.                                *)
(***************************************************************************)
EXTENDS Integers, Sequences, FiniteSets, TLC

VARIABLES
    pc,              \* position of the wrapper in main / run_command
    command,         \* args.command: the sequence of tokens
    skip_validation, \* args.skip_validation
    is_valid,        \* first component of validate_network_args' result
    error_msg,       \* second component of validate_network_args' result
    n_validate,      \* how many times validate_network_args was evaluated
    stdin_isatty,    \* sys.stdin.isatty()
    stdin_input,     \* the bytes waiting on the wrapper's standard input
    stdin_data,      \* main's stdin_data: None or the bytes read
    report_dir,      \* the report directory's name, None before it exists
    n_mkdir,         \* how many times create_report_directory made a directory
    files,           \* the report directory: file name -> content or None
    n_written,       \* file name -> how many times the file was written
    n_spawn,         \* how many times subprocess.run was called
    result,          \* run_command's result: what subprocess.run returned
    raised,          \* the exception subprocess.run raised, "none" without one
    stdout_data,     \* run_command's stdout_data
    stderr_data,     \* run_command's stderr_data
    exit_code,       \* run_command's exit_code
    usage,           \* get_resource_usage()'s result
    start_time,      \* run_command's start_datetime
    end_time,        \* run_command's end_datetime
    out_stdout,      \* what the wrapper wrote to its own stdout, in order
    out_stderr,      \* what the wrapper wrote to its own stderr, in order
    ret,             \* main's return value, None before it returns
    now,             \* the clock
    n_read,          \* how many times sys.stdin.buffer.read() was called
    popen,           \* what subprocess.run was called with: args and input
    fault,           \* the uncaught exception that ended the wrapper and
                     \* where it was raised; <<>> while there is none
    wall,            \* the UTC wall clock, in milliseconds
    inv,             \* wrapper processes running side by side: process ->
                     \* its position, command name and report directory
    disk,            \* the report root they share: directory -> file ->
                     \* the processes that wrote the file, in order
    call_arg,        \* the argument of a function called on its own
    call_ret         \* what that call returned, None before it returns

vars == <<pc, command, skip_validation, is_valid, error_msg, n_validate,
          stdin_isatty, stdin_input, stdin_data, report_dir, n_mkdir, files,
          n_written, n_spawn, result, raised, stdout_data, stderr_data, exit_code, usage,
          start_time, end_time, out_stdout, out_stderr, ret, now,
          n_read, popen, fault, wall, inv, disk, call_arg, call_ret>>

\* The variables of one run of main.
solo == <<pc, command, skip_validation, is_valid, error_msg, n_validate,
          stdin_isatty, stdin_input, stdin_data, report_dir, n_mkdir, files,
          n_written, n_spawn, result, raised, stdout_data, stderr_data,
          exit_code, usage, start_time, end_time, out_stdout, out_stderr,
          ret, now, n_read, popen, fault>>

\* The variables of the scenarios that are not the one running.
aside == <<wall, inv, disk, call_arg, call_ret>>

----------------------------------------------------------------------------
(* Characters and strings.                                                 *)

Digits == {"0","1","2","3","4","5","6","7","8","9"}

HexLetters == {"a","b","c","d","e","f","A","B","C","D","E","F"}

HexDigits == Digits \cup HexLetters

LowerChars == <<"a","b","c","d","e","f","g","h","i","j","k","l","m",
                "n","o","p","q","r","s","t","u","v","w","x","y","z">>

UpperChars == <<"A","B","C","D","E","F","G","H","I","J","K","L","M",
                "N","O","P","Q","R","S","T","U","V","W","X","Y","Z">>

Letters == {LowerChars[i] : i \in 1..26} \cup {UpperChars[i] : i \in 1..26}

DigitChars == <<"0","1","2","3","4","5","6","7","8","9">>

\* Python's None, as a value no string equals.
None == <<"None">>

\* Python's truth value of an optional string: None and "" are false.
Truthy(s) == s # None /\ Len(s) > 0

Min(S) == CHOOSE x \in S : \A y \in S : x <= y

Max(S) == CHOOSE x \in S : \A y \in S : x >= y

\* The character that a byte of the command line which is not UTF-8
\* becomes in sys.argv (the surrogateescape error handler).
Surrogate == "U+DCFF"

\* s.encode() and the encoding of write_text succeed: UTF-8 encodes
\* everything but surrogates.
Encodable(s) == \A i \in 1..Len(s) : s[i] # Surrogate

\* str.lower() on one character and on a string.
LowerChar(c) ==
    IF \E i \in 1..26 : UpperChars[i] = c
    THEN LowerChars[CHOOSE i \in 1..26 : UpperChars[i] = c]
    ELSE c

Lower(s) == [i \in 1..Len(s) |-> LowerChar(s[i])]

\* c in s
Contains(s, c) == \E i \in 1..Len(s) : s[i] = c

\* s.find(c) + 1: the first position of c in s, 0 when there is none.
Find(s, c) == IF Contains(s, c) THEN Min({i \in 1..Len(s) : s[i] = c}) ELSE 0

\* s.rfind(c) + 1
RFind(s, c) == IF Contains(s, c) THEN Max({i \in 1..Len(s) : s[i] = c}) ELSE 0

\* s.startswith(p)
StartsWith(s, p) == Len(s) >= Len(p) /\ SubSeq(s, 1, Len(p)) = p

\* s[k:] for a position k counted from 1.
From(s, k) == SubSeq(s, k, Len(s))

AllIn(s, class) == \A i \in 1..Len(s) : s[i] \in class

\* str.isdigit() on ASCII text, and the pattern \d+ .
IsDigits(s) == Len(s) > 0 /\ AllIn(s, Digits)

\* s.split(c)
RECURSIVE Split(_, _)
Split(s, c) ==
    IF Contains(s, c)
    THEN <<SubSeq(s, 1, Find(s, c) - 1)>> \o Split(From(s, Find(s, c) + 1), c)
    ELSE <<s>>

\* s.strip(chars)
RECURSIVE LStrip(_, _)
LStrip(s, chars) ==
    IF Len(s) > 0 /\ s[1] \in chars THEN LStrip(Tail(s), chars) ELSE s

RECURSIVE RStrip(_, _)
RStrip(s, chars) ==
    IF Len(s) > 0 /\ s[Len(s)] \in chars
    THEN RStrip(SubSeq(s, 1, Len(s) - 1), chars)
    ELSE s

Strip(s, chars) == RStrip(LStrip(s, chars), chars)

DigitVal(c) == (CHOOSE i \in 1..10 : DigitChars[i] = c) - 1

HexVal(c) ==
    IF c \in Digits THEN DigitVal(c)
    ELSE 9 + (CHOOSE i \in 1..6 : LowerChars[i] = LowerChar(c))

\* int(s, 10) and int(s, 16) for a non-empty string of digits.
RECURSIVE DecInt(_)
DecInt(s) ==
    IF Len(s) = 0 THEN 0
    ELSE 10 * DecInt(SubSeq(s, 1, Len(s) - 1)) + DigitVal(s[Len(s)])

RECURSIVE HexInt(_)
HexInt(s) ==
    IF Len(s) = 0 THEN 0
    ELSE 16 * HexInt(SubSeq(s, 1, Len(s) - 1)) + HexVal(s[Len(s)])

----------------------------------------------------------------------------
(* ipaddress.ip_address(address).is_loopback, as is_loopback_address uses  *)
(* it: the parse of a dotted quad or of an IPv6 literal, and the loopback  *)
(* test of the parsed value.                                               *)

\* IPv4Address._parse_octet succeeds
OctetOk(o) ==
    /\ IsDigits(o)
    /\ Len(o) <= 3
    /\ (Len(o) > 1 => o[1] # "0")
    /\ DecInt(o) <= 255

OctetsOk(octets) == Len(octets) = 4 /\ \A i \in 1..4 : OctetOk(octets[i])

\* ipaddress.IPv4Address(s) succeeds
IsIPv4(s) == OctetsOk(Split(s, "."))

OctetsOf(octets) == [i \in 1..4 |-> DecInt(octets[i])]

IPv4Octets(s) == OctetsOf(Split(s, "."))

\* IPv6Address._parse_hextet, -1 when it raises
HextetOk(h) == Len(h) > 0 /\ Len(h) <= 4 /\ AllIn(h, HexDigits)

HextetVal(h) == IF HextetOk(h) THEN HexInt(h) ELSE -1

\* The two hextets an IPv4-style suffix stands for.
V6SuffixOf(o) == <<o[1] * 256 + o[2], o[3] * 256 + o[4]>>

\* The eight hextets: hi parts from the front, lo parts from the back,
\* zeros between; <<>> when one of the parts used is no hextet.
V6Take(vals, hi, lo) ==
    IF \E i \in (1..hi) \cup ((Len(vals) - lo + 1)..Len(vals)) : vals[i] < 0
    THEN <<>>
    ELSE [i \in 1..8 |->
            IF i <= hi THEN vals[i]
            ELSE IF i <= 8 - lo THEN 0
            ELSE vals[Len(vals) - (8 - i)]]

\* No "::" in the literal: all eight parts are given.
V6Full(vals, emptys) ==
    IF Len(vals) # 8 \/ 1 \in emptys \/ 8 \in emptys THEN <<>>
    ELSE V6Take(vals, 8, 0)

\* A "::" at part skip: hi parts before it, lo parts after it.
V6Counted(vals, emptys, hi, lo) ==
    IF 1 \in emptys /\ hi # 0 THEN <<>>
    ELSE IF Len(vals) \in emptys /\ lo # 0 THEN <<>>
    ELSE IF 8 - (hi + lo) < 1 THEN <<>>
    ELSE V6Take(vals, hi, lo)

V6Compressed(vals, emptys, skip) ==
    V6Counted(vals, emptys,
              (skip - 1) - (IF 1 \in emptys THEN 1 ELSE 0),
              (Len(vals) - skip) - (IF Len(vals) \in emptys THEN 1 ELSE 0))

V6Layout(vals, emptys, skips) ==
    IF Len(vals) > 9 THEN <<>>
    ELSE IF Cardinality(skips) > 1 THEN <<>>
    ELSE IF skips = {} THEN V6Full(vals, emptys)
    ELSE V6Compressed(vals, emptys, Min(skips))

\* txt: the colon-separated parts that are text; suffix: the hextets of an
\* IPv4-style last part, if there was one.
V6Assemble(txt, suffix) ==
    V6Layout([i \in 1..(Len(txt) + Len(suffix)) |->
                 IF i <= Len(txt) THEN HextetVal(txt[i])
                 ELSE suffix[i - Len(txt)]],
             {i \in 1..Len(txt) : Len(txt[i]) = 0},
             {i \in 2..(Len(txt) + Len(suffix) - 1) :
                 i <= Len(txt) /\ Len(txt[i]) = 0})

V6FromParts(parts) ==
    IF Len(parts) < 3 THEN <<>>
    ELSE IF Contains(parts[Len(parts)], ".")
    THEN IF IsIPv4(parts[Len(parts)])
         THEN V6Assemble(SubSeq(parts, 1, Len(parts) - 1),
                         V6SuffixOf(IPv4Octets(parts[Len(parts)])))
         ELSE <<>>
    ELSE V6Assemble(parts, <<>>)

\* IPv6Address._ip_int_from_string: the eight hextet values of the literal,
\* <<>> when it raises.
V6Hextets(addr) == IF Len(addr) = 0 THEN <<>> ELSE V6FromParts(Split(addr, ":"))

\* IPv6Address._split_scope_id: the address without its %scope, <<>> when
\* the scope is malformed.
V6ScopeSplit(s, p) ==
    IF p = 0 THEN s
    ELSE IF p = Len(s) \/ Contains(From(s, p + 1), "%") THEN <<>>
    ELSE SubSeq(s, 1, p - 1)

V6Addr(s) == V6ScopeSplit(s, Find(s, "%"))

\* The value of ipaddress.IPv6Address(s), <<>> when it raises.
IPv6Value(s) == IF Contains(s, "/") THEN <<>> ELSE V6Hextets(V6Addr(s))

IsIPv6(s) == IPv6Value(s) # <<>>

\* Lines 51-57: ip_address(address).is_loopback, False on ValueError.
is_loopback_address(address) ==
    IF IsIPv4(address) THEN IPv4Octets(address)[1] = 127
    ELSE IPv6Value(address) = <<0, 0, 0, 0, 0, 0, 0, 1>>

LOOPBACK_HOSTNAMES == {
    <<"l","o","c","a","l","h","o","s","t">>,
    <<"l","o","c","a","l","h","o","s","t",".","l","o","c","a","l","d","o","m","a","i","n">>,
    <<"i","p","6","-","l","o","c","a","l","h","o","s","t">>,
    <<"i","p","6","-","l","o","o","p","b","a","c","k">> }

AllowedStripped(h) ==
    IF Lower(h) \in LOOPBACK_HOSTNAMES THEN TRUE ELSE is_loopback_address(h)

\* is_allowed_host without line 63: the brackets stay.
is_allowed_host_unstripped(host) == AllowedStripped(host)

\* Lines 60-70.
is_allowed_host(host) == AllowedStripped(Strip(host, {"[", "]"}))

----------------------------------------------------------------------------
(* The four patterns, as the predicate "PATTERN.match(arg) is not None".   *)

URL_SCHEMES == {
    <<"h","t","t","p",":","/","/">>,
    <<"h","t","t","p","s",":","/","/">>,
    <<"f","t","p",":","/","/">>,
    <<"f","t","p","s",":","/","/">> }

\* ^(https?|ftp|ftps)://   with re.IGNORECASE
URL_PATTERN(arg) == \E p \in URL_SCHEMES : StartsWith(Lower(arg), p)

\* (:\d+)?$  applied to what follows the part before it
PortSuffix(s) == Len(s) = 0 \/ (s[1] = ":" /\ IsDigits(Tail(s)))

\* ^(\d{1,3}\.){3}\d{1,3}(:\d+)?$
IPV4_PATTERN(arg) ==
    LET c == Find(arg, ":")
        quad == IF c = 0 THEN arg ELSE SubSeq(arg, 1, c - 1)
        rest == IF c = 0 THEN <<>> ELSE From(arg, c)
        parts == Split(quad, ".")
    IN  /\ Len(parts) = 4
        /\ \A i \in 1..4 : IsDigits(parts[i]) /\ Len(parts[i]) <= 3
        /\ PortSuffix(rest)

\* ^\[?([0-9a-fA-F:]+)\]?(:\d+)?$
IPV6_PATTERN(arg) ==
    LET r == IF Len(arg) > 0 /\ arg[1] = "[" THEN Tail(arg) ELSE arg
        k == Find(r, "]")
        Group(g) == Len(g) > 0 /\ AllIn(g, HexDigits \cup {":"})
    IN  IF k = 0 THEN Group(r)
        ELSE Group(SubSeq(r, 1, k - 1)) /\ PortSuffix(From(r, k + 1))

\* ^([a-zA-Z0-9.-]+)(:\d+)?$
HOST_PORT_PATTERN(arg) ==
    LET c == Find(arg, ":")
        host == IF c = 0 THEN arg ELSE SubSeq(arg, 1, c - 1)
        rest == IF c = 0 THEN <<>> ELSE From(arg, c)
    IN  /\ Len(host) > 0
        /\ AllIn(host, Letters \cup Digits \cup {".", "-"})
        /\ PortSuffix(rest)

----------------------------------------------------------------------------
(* Host extraction.                                                        *)

\* The netloc urlparse finds: what follows "scheme://" up to the first of
\* "/", "?", "#".
UrlNetloc(url) ==
    LET rest == From(url, Find(url, ":") + 3)
        ends == {i \in 1..Len(rest) : rest[i] \in {"/", "?", "#"}}
    IN  IF ends = {} THEN rest ELSE SubSeq(rest, 1, Min(ends) - 1)

\* The text between the first "[" and the next "]" (to the end without one).
Bracketed(s) ==
    LET after == From(s, Find(s, "[") + 1)
        k == Find(after, "]")
    IN  IF k = 0 THEN after ELSE SubSeq(after, 1, k - 1)

\* \Av[a-fA-F0-9]+\..+\Z
IPvFuture(h) ==
    LET d == Find(h, ".")
    IN  d > 2 /\ AllIn(SubSeq(h, 2, d - 1), HexDigits) /\ Len(h) > d

\* urlparse(url) raises ValueError
UrlParseFails(url) ==
    LET netloc == UrlNetloc(url)
        open == Contains(netloc, "[")
        close == Contains(netloc, "]")
        b == Bracketed(netloc)
    IN  \/ open # close
        \/ /\ open /\ close
           /\ IF Len(b) > 0 /\ b[1] = "v" THEN ~IPvFuture(b)
              ELSE ~IsIPv6(b)

\* urlparse(url).hostname
UrlHostname(url) ==
    LET netloc == UrlNetloc(url)
        hostinfo == From(netloc, RFind(netloc, "@") + 1)
        c == Find(hostinfo, ":")
        hostname == IF Contains(hostinfo, "[") THEN Bracketed(hostinfo)
                    ELSE IF c = 0 THEN hostinfo
                    ELSE SubSeq(hostinfo, 1, c - 1)
        p == Find(hostname, "%")
    IN  IF Len(hostname) = 0 THEN None
        ELSE IF p = 0 THEN Lower(hostname)
        ELSE Lower(SubSeq(hostname, 1, p - 1)) \o From(hostname, p)

\* extract_host_from_url whose except clause of lines 78-79 returns the URL
\* instead of None.
extract_host_from_url_or_url(url) ==
    IF UrlParseFails(url) THEN url ELSE UrlHostname(url)

extract_host_from_url(url) ==
    IF UrlParseFails(url) THEN None ELSE UrlHostname(url)

\* re.match(r"^\[([^\]]+)\](:\d+)?$", address), for an address that starts
\* with "[": whether it matches.
BracketMatch(address) ==
    LET k == Find(address, "]")
    IN  k > 2 /\ PortSuffix(From(address, k + 1))

extract_host_from_address(address) ==
    IF Len(address) > 0 /\ address[1] = "["
    THEN IF BracketMatch(address)
         THEN SubSeq(address, 2, Find(address, "]") - 1)
         ELSE address
    ELSE IF Contains(address, ":")
    THEN IF IsDigits(From(address, RFind(address, ":") + 1))
         THEN SubSeq(address, 1, RFind(address, ":") - 1)
         ELSE address
    ELSE address

----------------------------------------------------------------------------
(* validate_network_args.  A result is <<is_valid, error_message>>; the    *)
(* message is <<>> (the empty string) or the fixed text, held as one       *)
(* element, followed by the characters of the loop variable arg.           *)

Allowed == <<TRUE, <<>>>>

Denied(text, arg) == <<FALSE, <<text>> \o arg>>

\* FlagValue splitting at the last "=" instead of the first.
FlagValueLastEquals(arg) ==
    IF Len(arg) > 0 /\ arg[1] = "-"
    THEN IF Contains(arg, "=") THEN From(arg, RFind(arg, "=") + 1) ELSE None
    ELSE arg

\* Lines 107-113: what the loop variable holds after the flag handling;
\* None when the token is skipped by "continue".
FlagValue(arg) ==
    IF Len(arg) > 0 /\ arg[1] = "-"
    THEN IF Contains(arg, "=") THEN From(arg, Find(arg, "=") + 1) ELSE None
    ELSE arg

\* Category with the host:port pattern tried before the IPv6 pattern.
CategoryHostPortFirst(arg) ==
    IF URL_PATTERN(arg) THEN "URL"
    ELSE IF IPV4_PATTERN(arg) THEN "IPv4"
    ELSE IF HOST_PORT_PATTERN(arg) /\ Contains(arg, ":") THEN "Host:port"
    ELSE IF IPV6_PATTERN(arg) THEN "IPv6"
    ELSE "none"

\* Lines 116, 123, 130, 137: the first pattern the value matches.
Category(arg) ==
    IF URL_PATTERN(arg) THEN "URL"
    ELSE IF IPV4_PATTERN(arg) THEN "IPv4"
    ELSE IF IPV6_PATTERN(arg) THEN "IPv6"
    ELSE IF HOST_PORT_PATTERN(arg) /\ Contains(arg, ":") THEN "Host:port"
    ELSE "none"

\* Lines 117, 124, 131, 138: the host the matching branch extracts.
ExtractedHost(cat, arg) ==
    IF cat = "URL" THEN extract_host_from_url(arg)
    ELSE IF cat = "none" THEN None
    ELSE extract_host_from_address(arg)

\* DenialText with the text of line 119 in every branch.
DenialTextAlwaysURL(cat) == "URL contains non-loopback host: "

\* Lines 119, 126, 133, 140: the text of the matching branch's message.
DenialText(cat) ==
    IF cat = "URL" THEN "URL contains non-loopback host: "
    ELSE IF cat = "IPv4" THEN "IPv4 address is not loopback: "
    ELSE IF cat = "IPv6" THEN "IPv6 address is not loopback: "
    ELSE "Host:port contains non-loopback host: "

\* "if host and not is_allowed_host(host)"
HostDenied(host) == IF Truthy(host) THEN ~is_allowed_host(host) ELSE FALSE

\* Lines 118-120 and their like: return the denial, or continue.
Decide(cat, host, arg) ==
    IF HostDenied(host) THEN Denied(DenialText(cat), arg) ELSE Allowed

ClassifyAs(cat, arg) == Decide(cat, ExtractedHost(cat, arg), arg)

\* Lines 115-140: the decision on one value; Allowed stands for "continue".
ClassifyValue(arg) == ClassifyAs(Category(arg), arg)

ClassifyFlagValue(v) == IF v = None THEN Allowed ELSE ClassifyValue(v)

\* One iteration of the loop body on one token.
ValidateArg(tok) == ClassifyFlagValue(FlagValue(tok))

\* The loop over args from position i on: the first denial is returned.
RECURSIVE ValidateFrom(_, _)

\* ValidateStep without the early return: the loop runs to the end of the
\* list and the last denial is the one returned.
ValidateStepKeepsGoing(r, args, i) ==
    IF i + 1 > Len(args) \/ ValidateFrom(args, i + 1)[1]
    THEN r
    ELSE ValidateFrom(args, i + 1)

ValidateStep(r, args, i) == IF ~r[1] THEN r ELSE ValidateFrom(args, i + 1)

ValidateFrom(args, i) ==
    IF i > Len(args) THEN Allowed
    ELSE ValidateStep(ValidateArg(args[i]), args, i)

\* Lines 98-142.
validate_network_args(args) == ValidateFrom(args, 1)

----------------------------------------------------------------------------
(* Inputs.  The pipeline runs on commands of up to MaxArgs tokens taken    *)
(* from ArgTokens; the validator alone also runs on every token that is a  *)
(* concatenation of up to MaxPieces pieces, and on lists of up to MaxList  *)
(* tokens of ArgTokens.                                                    *)

MaxArgs == 2

MaxList == 3

MaxPieces == 3

P_http == <<"h","t","t","p",":","/","/">>  \* http://

P_v4loop == <<"1","2","7",".","0",".","0",".","1">>  \* 127.0.0.1

P_v4ext == <<"8",".","8",".","8",".","8">>  \* 8.8.8.8

P_v6loop == <<":",":","1">>  \* ::1

P_localhost == <<"l","o","c","a","l","h","o","s","t">>  \* localhost

P_evil == <<"e","v","i","l",".","c","o","m">>  \* evil.com

P_port == <<":","8","0">>  \* :80

P_open == <<"[">>  \* [

P_close == <<"]">>  \* ]

P_flag == <<"-","-","u","r","l","=">>  \* --url=

P_dash == <<"-">>  \* -

P_add == <<"a","d","d">>  \* add

Pieces == {P_http, P_v4loop, P_v4ext, P_v6loop, P_localhost, P_evil, P_port, P_open, P_close, P_flag, P_dash, P_add}

T_curl == <<"c","u","r","l">>  \* curl

T_s == <<"-","s">>  \* -s

T_url_local == <<"h","t","t","p",":","/","/","l","o","c","a","l","h","o","s","t",":","8","0","/","a","p","i">>  \* http://localhost:80/api

T_url_evil == <<"h","t","t","p",":","/","/","e","v","i","l",".","c","o","m">>  \* http://evil.com

T_flag_evil == <<"-","-","u","r","l","=","e","v","i","l",".","c","o","m",":","8","0">>  \* --url=evil.com:80

T_v4_evil == <<"8",".","8",".","8",".","8",":","8","0">>  \* 8.8.8.8:80

T_add == <<"a","d","d">>  \* add

T_v6loop == <<":",":","1">>  \* ::1

T_v4mapped == <<":",":","f","f","f","f",":","8",".","8",".","8",".","8">>  \* ::ffff:8.8.8.8

T_undecodable == <<Surrogate>>

ArgTokens == {T_curl,
              T_undecodable,
              T_s,
              T_url_local,
              T_url_evil,
              T_flag_evil,
              P_flag \o P_localhost \o P_port,
              T_v4_evil,
              T_add,
              T_v6loop,
              T_v4mapped}

RECURSIVE Flatten(_)
Flatten(ss) == IF Len(ss) = 0 THEN <<>> ELSE Head(ss) \o Flatten(Tail(ss))

SeqsUpTo(S, n) == UNION {[1..k -> S] : k \in 0..n}

PieceTokens == {Flatten(ps) : ps \in SeqsUpTo(Pieces, MaxPieces) \ {<<>>}}

Commands == SeqsUpTo(ArgTokens, MaxArgs)

\* URLs with an empty authority and URLs urlparse rejects, beside two it
\* accepts.
UrlSamples == {
    <<"h","t","t","p",":","/","/">>,
    <<"h","t","t","p",":","/","/","/","p","a","t","h">>,
    <<"H","T","T","P",":","/","/",":","8","0">>,
    <<"f","t","p",":","/","/","@">>,
    <<"h","t","t","p","s",":","/","/","[",":",":","1">>,
    <<"h","t","t","p",":","/","/","[","z","z","]">>,
    <<"h","t","t","p",":","/","/","]">>,
    <<"-","-","u","r","l","=","h","t","t","p",":","/","/">>,
    <<"h","t","t","p",":","/","/","?","q","=","8",".","8",".","8",".","8">>,
    <<"f","t","p","s",":","/","/","#","e","v","i","l",".","c","o","m">>,
    <<"h","t","t","p",":","/","/","u","s","e","r","@",":","8","0","/">>,
    <<"h","t","t","p",":","/","/","[","]">>,
    <<"h","t","t","p",":","/","/","[","8",".","8",".","8",".","8","]">>,
    <<"h","t","t","p",":","/","/","[",":",":","1","]","x">>,
    <<"h","t","t","p",":","/","/","@","e","v","i","l",".","c","o","m",":","8","0">> }

\* Lists that hold one of them beside another token.
UrlLists ==
    {<<u>> : u \in UrlSamples}
        \cup {<<u, tok>> : u \in UrlSamples, tok \in {T_curl, T_url_evil, T_v4_evil}}
        \cup {<<tok, u>> : u \in UrlSamples, tok \in {T_curl, T_url_evil, T_v4_evil}}

ValidateInputs ==
    {<<tok>> : tok \in PieceTokens} \cup SeqsUpTo(ArgTokens, MaxList) \cup UrlLists

\* The bytes that may wait on the wrapper's standard input.
StdinInputs == {<<>>, <<"i","n">>}

\* What a child that was started may do: its return code (negative when a
\* signal ended it) and its output.
ChildReturnCodes == {0, 2, -9}

ChildStdout(input) ==
    {<<>>, <<"o","u","t">>} \cup (IF input = None THEN {} ELSE {input})

\* Line 197: what the child finds on its standard input.  With input=None
\* subprocess.run leaves stdin alone and the child inherits the wrapper's,
\* which main has not read; otherwise it is a pipe holding input.
ChildStdin(input) == IF input = None THEN stdin_input ELSE input

ChildStderr == {<<>>, <<"e","r","r">>}

\* getrusage(RUSAGE_CHILDREN) where the resource module exists, and the
\* zero record where it does not.
ZeroUsage ==
    [user_time_seconds |-> 0, system_time_seconds |-> 0, max_memory_kb |-> 0]

SampledUsage ==
    [user_time_seconds |-> 1, system_time_seconds |-> 1, max_memory_kb |-> 1024]

FileNames == {"STDIN.log", "STDOUT.log", "STDERR.log", "result.log"}

----------------------------------------------------------------------------
(* create_report_directory's name and result.log's text.                   *)

\* os.path.basename
Basename(path) == From(path, RFind(path, "/") + 1)

\* re.sub(r"[^\w\-.]", "_", command_name)
SafeName(name) ==
    [i \in 1..Len(name) |->
        IF name[i] \in Letters \cup Digits \cup {"_", "-", "."}
        THEN name[i] ELSE "_"]

\* " ".join(command)
RECURSIVE Join(_)
Join(toks) ==
    IF Len(toks) = 0 THEN <<>>
    ELSE IF Len(toks) = 1 THEN toks[1]
    ELSE toks[1] \o <<" ">> \o Join(Tail(toks))

\* The nine "key: value" lines of result.log, in the order written.
ResultContent ==
    << <<"command", Join(command)>>,
       <<"working_directory", "cwd">>,
       <<"exit_code", exit_code>>,
       <<"start_time", start_time>>,
       <<"end_time", end_time>>,
       <<"duration_seconds", end_time - start_time>>,
       <<"cpu_user_time_seconds", usage.user_time_seconds>>,
       <<"cpu_system_time_seconds", usage.system_time_seconds>>,
       <<"max_memory_kb", usage.max_memory_kb>> >>

\* The three lines main writes to stderr on denial.
DenialLines(msg) ==
    << <<"autoapprove: Network validation failed: ">> \o msg,
       <<"autoapprove: Only loopback addresses (127.0.0.1, ::1, localhost) are allowed.">>,
       <<"autoapprove: Use --skip-validation to bypass this check (not recommended).">> >>

----------------------------------------------------------------------------
(* The state after argparse: the command and the flag are given, nothing   *)
(* has run.                                                                *)

Fresh ==
    /\ is_valid = None
    /\ error_msg = None
    /\ n_validate = 0
    /\ stdin_data = None
    /\ report_dir = None
    /\ n_mkdir = 0
    /\ files = [f \in FileNames |-> None]
    /\ n_written = [f \in FileNames |-> 0]
    /\ n_spawn = 0
    /\ result = None
    /\ raised = None
    /\ stdout_data = None
    /\ stderr_data = None
    /\ exit_code = None
    /\ usage = None
    /\ start_time = None
    /\ end_time = None
    /\ out_stdout = <<>>
    /\ out_stderr = <<>>
    /\ ret = None
    /\ now = 0
    /\ n_read = 0
    /\ popen = None
    /\ fault = <<>>

\* Nothing runs side by side and no function is called on its own.
Idle ==
    /\ wall = 0
    /\ inv = <<>>
    /\ disk = <<>>
    /\ call_arg = <<>>
    /\ call_ret = None

Init ==
    /\ pc = "main"
    /\ command \in Commands
    /\ skip_validation \in BOOLEAN
    /\ stdin_isatty \in BOOLEAN
    /\ stdin_input \in StdinInputs
    /\ Fresh
    /\ Idle

\* A direct call of validate_network_args(args), as the tests make it.
InitValidate ==
    /\ pc = "call"
    /\ command \in ValidateInputs
    /\ skip_validation = FALSE
    /\ stdin_isatty = TRUE
    /\ stdin_input = <<>>
    /\ Fresh
    /\ Idle

----------------------------------------------------------------------------
(* main, lines 274-303, and run_command, lines 176-248, one action per     *)
(* step that the outside can observe.  Every action advances the clock.    *)

Tick == now' = now + 1

\* MainNoCommand with the test of line 276 placed after the validation of
\* line 284.
MainNoCommandAfterValidation ==
    /\ pc = "main"
    /\ command = <<>>
    /\ n_validate' = n_validate + 1
    /\ out_stdout' = Append(out_stdout, <<"usage">>)
    /\ ret' = 1
    /\ pc' = "done"
    /\ Tick
    /\ UNCHANGED aside
    /\ UNCHANGED <<n_read, popen, fault, result, raised, command,
                   skip_validation, is_valid, error_msg, stdin_isatty,
                   stdin_input, stdin_data, report_dir, n_mkdir, files,
                   n_written, n_spawn, stdout_data, stderr_data, exit_code,
                   usage, start_time, end_time, out_stderr>>

\* Lines 276-278: no command was given.
MainNoCommand ==
    /\ pc = "main"
    /\ command = <<>>
    /\ out_stdout' = Append(out_stdout, <<"usage">>)
    /\ ret' = 1
    /\ pc' = "done"
    /\ Tick
    /\ UNCHANGED aside
    /\ UNCHANGED <<n_read, popen, fault, result, raised, command, skip_validation, is_valid, error_msg, n_validate,
                   stdin_isatty, stdin_input, stdin_data, report_dir, n_mkdir,
                   files, n_written, n_spawn, stdout_data, stderr_data,
                   exit_code, usage, start_time, end_time, out_stderr>>

\* Validated with the denial ignored: main goes on to run the command.
ValidatedDenialIgnored(r) ==
    /\ is_valid' = r[1]
    /\ error_msg' = r[2]
    /\ n_validate' = n_validate + 1
    /\ pc' = "read_stdin"

\* Lines 283-285: the validator is evaluated on the command.
Validated(r) ==
    /\ is_valid' = r[1]
    /\ error_msg' = r[2]
    /\ n_validate' = n_validate + 1
    /\ pc' = IF r[1] THEN "read_stdin" ELSE "deny"

\* The argument list with every flag=value token replaced by its value.
ValuesOf(args) ==
    [i \in 1..Len(args) |->
        IF FlagValue(args[i]) = None THEN args[i] ELSE FlagValue(args[i])]

\* MainValidate with the validator's loop assigning into the list: the
\* command keeps the values that were classified.
MainValidateRewrites ==
    /\ pc = "main"
    /\ command # <<>>
    /\ ~skip_validation
    /\ Validated(validate_network_args(command))
    /\ command' = ValuesOf(command)
    /\ Tick
    /\ UNCHANGED aside
    /\ UNCHANGED <<n_read, popen, fault, result, raised, skip_validation,
                   stdin_isatty, stdin_input, stdin_data, report_dir, n_mkdir,
                   files, n_written, n_spawn, stdout_data, stderr_data,
                   exit_code, usage, start_time, end_time, out_stdout,
                   out_stderr, ret>>

MainValidate ==
    /\ pc = "main"
    /\ command # <<>>
    /\ ~skip_validation
    /\ Validated(validate_network_args(command))
    /\ Tick
    /\ UNCHANGED aside
    /\ UNCHANGED <<n_read, popen, fault, result, raised, command, skip_validation, stdin_isatty, stdin_input,
                   stdin_data, report_dir, n_mkdir, files, n_written, n_spawn,
                   stdout_data, stderr_data, exit_code, usage, start_time,
                   end_time, out_stdout, out_stderr, ret>>

\* MainSkipValidation with the flag ignored: the validator is called.
MainSkipValidationIgnored ==
    /\ pc = "main"
    /\ command # <<>>
    /\ skip_validation
    /\ Validated(validate_network_args(command))
    /\ Tick
    /\ UNCHANGED aside
    /\ UNCHANGED <<n_read, popen, fault, result, raised, command,
                   skip_validation, stdin_isatty, stdin_input, stdin_data,
                   report_dir, n_mkdir, files, n_written, n_spawn,
                   stdout_data, stderr_data, exit_code, usage, start_time,
                   end_time, out_stdout, out_stderr, ret>>

\* Line 283 with --skip-validation: the validator is not called.
MainSkipValidation ==
    /\ pc = "main"
    /\ command # <<>>
    /\ skip_validation
    /\ pc' = "read_stdin"
    /\ Tick
    /\ UNCHANGED aside
    /\ UNCHANGED <<n_read, popen, fault, result, raised, command, skip_validation, is_valid, error_msg, n_validate,
                   stdin_isatty, stdin_input, stdin_data, report_dir, n_mkdir,
                   files, n_written, n_spawn, stdout_data, stderr_data,
                   exit_code, usage, start_time, end_time, out_stdout,
                   out_stderr, ret>>


\* MainDeny without its return: control falls through to the code after
\* the validation block.
MainDenyFallsThrough ==
    /\ pc = "deny"
    /\ out_stderr' = out_stderr \o DenialLines(error_msg)
    /\ ret' = ret
    /\ pc' = "read_stdin"
    /\ Tick
    /\ UNCHANGED aside
    /\ UNCHANGED <<n_read, popen, fault, result, raised, command, skip_validation, is_valid,
                   error_msg, n_validate, stdin_isatty, stdin_input,
                   stdin_data, report_dir, n_mkdir, files, n_written, n_spawn,
                   stdout_data, stderr_data, exit_code, usage, start_time,
                   end_time, out_stdout>>

\* Lines 286-289: the three diagnostic lines and return 1.
MainDeny ==
    /\ pc = "deny"
    /\ out_stderr' = out_stderr \o DenialLines(error_msg)
    /\ ret' = 1
    /\ pc' = "done"
    /\ Tick
    /\ UNCHANGED aside
    /\ UNCHANGED <<n_read, popen, fault, result, raised, command, skip_validation, is_valid, error_msg, n_validate,
                   stdin_isatty, stdin_input, stdin_data, report_dir, n_mkdir,
                   files, n_written, n_spawn, stdout_data, stderr_data,
                   exit_code, usage, start_time, end_time, out_stdout>>

\* Lines 292-294: standard input is read to its end unless it is a terminal.
MainReadStdin ==
    /\ pc = "read_stdin"
    /\ stdin_data' = IF stdin_isatty THEN None ELSE stdin_input
    /\ n_read' = IF stdin_isatty THEN n_read ELSE n_read + 1
    /\ pc' = "mkdir"
    /\ Tick
    /\ UNCHANGED aside
    /\ UNCHANGED <<popen, fault, result, raised, command, skip_validation, is_valid, error_msg, n_validate,
                   stdin_isatty, stdin_input, report_dir, n_mkdir, files,
                   n_written, n_spawn, result, raised, stdout_data, stderr_data, exit_code,
                   usage, start_time, end_time, out_stdout, out_stderr, ret>>

\* Lines 297-298 and 150-157: the report directory is made.
create_report_directory ==
    /\ pc = "mkdir"
    /\ report_dir' = [timestamp |-> now,
                      name |-> SafeName(Basename(command[1]))]
    /\ n_mkdir' = n_mkdir + 1
    /\ pc' = "stdin_log"
    /\ Tick
    /\ UNCHANGED aside
    /\ UNCHANGED <<n_read, popen, fault, result, raised, command, skip_validation, is_valid, error_msg, n_validate,
                   stdin_isatty, stdin_input, stdin_data, files, n_written,
                   n_spawn, stdout_data, stderr_data, exit_code, usage,
                   start_time, end_time, out_stdout, out_stderr, ret>>

\* Path.write_bytes / write_text of one report file.
WriteFile(name, content) ==
    /\ files' = [files EXCEPT ![name] = content]
    /\ n_written' = [n_written EXCEPT ![name] = @ + 1]

\* WriteStdinLog always taking the branch of line 191: the file is made
\* empty.
WriteStdinLogEmpty ==
    /\ pc = "stdin_log"
    /\ start_time' = now
    /\ WriteFile("STDIN.log", <<>>)
    /\ pc' = "spawn"
    /\ Tick
    /\ UNCHANGED aside
    /\ UNCHANGED <<n_read, popen, fault, result, raised, command,
                   skip_validation, is_valid, error_msg, n_validate,
                   stdin_isatty, stdin_input, stdin_data, report_dir, n_mkdir,
                   n_spawn, stdout_data, stderr_data, exit_code, usage,
                   end_time, out_stdout, out_stderr, ret>>

\* Lines 183-191: the start time is taken and STDIN.log is written.
WriteStdinLog ==
    /\ pc = "stdin_log"
    /\ start_time' = now
    /\ WriteFile("STDIN.log", IF Truthy(stdin_data) THEN stdin_data ELSE <<>>)
    /\ pc' = "spawn"
    /\ Tick
    /\ UNCHANGED aside
    /\ UNCHANGED <<n_read, popen, fault, result, raised, command, skip_validation, is_valid, error_msg, n_validate,
                   stdin_isatty, stdin_input, stdin_data, report_dir, n_mkdir,
                   n_spawn, stdout_data, stderr_data, exit_code, usage,
                   end_time, out_stdout, out_stderr, ret>>

\* Lines 194-219: what run_command holds after subprocess.run returned res
\* or raised exc, and the end time.
AfterSpawn(exc, res, out, err, code) ==
    /\ pc = "spawn"
    /\ n_spawn' = n_spawn + 1
    /\ popen' = [args |-> command, input |-> stdin_data]
    /\ raised' = exc
    /\ result' = res
    /\ stdout_data' = out
    /\ stderr_data' = err
    /\ exit_code' = code
    /\ end_time' = now + 1
    /\ pc' = "stdout_log"
    /\ Tick
    /\ UNCHANGED aside
    /\ UNCHANGED <<n_read, fault, command, skip_validation, is_valid, error_msg, n_validate,
                   stdin_isatty, stdin_input, stdin_data, report_dir, n_mkdir,
                   files, n_written, usage, start_time, out_stdout,
                   out_stderr, ret>>

\* Lines 201-203: the three values taken from the CompletedProcess.
Completed(res) == AfterSpawn("none", res, res.stdout, res.stderr, res.returncode)

\* Lines 195-203: the child ran; its output and return code are taken.
SpawnChild ==
    \E code \in ChildReturnCodes, out \in ChildStdout(ChildStdin(stdin_data)),
       err \in ChildStderr :
        Completed([returncode |-> code, stdout |-> out, stderr |-> err])

\* Lines 204-206 and 208-210 when the message cannot be encoded: the
\* handler of exc has set stdout_data, and str.encode() raises
\* UnicodeEncodeError, which nothing catches.
HandlerRaises(exc) ==
    /\ pc = "spawn"
    /\ n_spawn' = n_spawn + 1
    /\ popen' = [args |-> command, input |-> stdin_data]
    /\ raised' = exc
    /\ stdout_data' = <<>>
    /\ fault' = <<"UnicodeEncodeError", "except">>
    /\ pc' = "crashed"
    /\ Tick
    /\ UNCHANGED aside
    /\ UNCHANGED <<n_read, result, command, skip_validation, is_valid,
                   error_msg, n_validate, stdin_isatty, stdin_input,
                   stdin_data, report_dir, n_mkdir, files, n_written,
                   stderr_data, exit_code, usage, start_time, end_time,
                   out_stdout, out_stderr, ret>>

\* Lines 194-200 when SIGINT reaches the wrapper while it waits for the
\* child: subprocess.run raises KeyboardInterrupt, which "except Exception"
\* of line 212 does not catch; the wrapper ends where it is.
Interrupted ==
    /\ pc = "spawn"
    /\ n_spawn' = n_spawn + 1
    /\ popen' = [args |-> command, input |-> stdin_data]
    /\ fault' = <<"KeyboardInterrupt", "spawn">>
    /\ pc' = "interrupted"
    /\ Tick
    /\ UNCHANGED aside
    /\ UNCHANGED <<n_read, result, raised, command, skip_validation,
                   is_valid, error_msg, n_validate, stdin_isatty,
                   stdin_input, stdin_data, report_dir, n_mkdir, files,
                   n_written, stdout_data, stderr_data, exit_code, usage,
                   start_time, end_time, out_stdout, out_stderr, ret>>

\* Lines 204-207: FileNotFoundError.
SpawnNotFound ==
    /\ pc = "spawn"
    /\ IF Encodable(command[1])
       THEN AfterSpawn("FileNotFoundError", None, <<>>,
                       <<"Command not found: ">> \o command[1] \o <<"\n">>, 127)
       ELSE HandlerRaises("FileNotFoundError")

\* Lines 208-211: PermissionError.
SpawnPermissionDenied ==
    /\ pc = "spawn"
    /\ IF Encodable(command[1])
       THEN AfterSpawn("PermissionError", None, <<>>,
                       <<"Permission denied: ">> \o command[1] \o <<"\n">>, 126)
       ELSE HandlerRaises("PermissionError")

\* Lines 212-215: any other Exception.
SpawnOtherError ==
    AfterSpawn("Exception", None, <<>>,
               <<"Error executing command: ", "detail", "\n">>, 1)

\* Line 224.
WriteStdoutLog ==
    /\ pc = "stdout_log"
    /\ WriteFile("STDOUT.log", stdout_data)
    /\ pc' = "stderr_log"
    /\ Tick
    /\ UNCHANGED aside
    /\ UNCHANGED <<n_read, popen, fault, result, raised, command, skip_validation, is_valid, error_msg, n_validate,
                   stdin_isatty, stdin_input, stdin_data, report_dir, n_mkdir,
                   n_spawn, stdout_data, stderr_data, exit_code, usage,
                   start_time, end_time, out_stdout, out_stderr, ret>>

\* Line 225.
WriteStderrLog ==
    /\ pc = "stderr_log"
    /\ WriteFile("STDERR.log", stderr_data)
    /\ pc' = "rusage"
    /\ Tick
    /\ UNCHANGED aside
    /\ UNCHANGED <<n_read, popen, fault, result, raised, command, skip_validation, is_valid, error_msg, n_validate,
                   stdin_isatty, stdin_input, stdin_data, report_dir, n_mkdir,
                   n_spawn, stdout_data, stderr_data, exit_code, usage,
                   start_time, end_time, out_stdout, out_stderr, ret>>

\* Lines 228 and 160-173: the resource module is present or it is not.
get_resource_usage ==
    /\ pc = "rusage"
    /\ usage' \in {ZeroUsage, SampledUsage}
    /\ pc' = "result_log"
    /\ Tick
    /\ UNCHANGED aside
    /\ UNCHANGED <<n_read, popen, fault, result, raised, command, skip_validation, is_valid, error_msg, n_validate,
                   stdin_isatty, stdin_input, stdin_data, report_dir, n_mkdir,
                   files, n_written, n_spawn, stdout_data, stderr_data,
                   exit_code, start_time, end_time, out_stdout, out_stderr,
                   ret>>

\* Lines 231-242.  write_text opens the file, which empties it, and encodes
\* the text; when the command line cannot be encoded it raises
\* UnicodeEncodeError, which nothing catches, and the file stays empty.
WriteResultLog ==
    /\ pc = "result_log"
    /\ IF Encodable(Join(command))
       THEN /\ WriteFile("result.log", ResultContent)
            /\ fault' = fault
            /\ pc' = "emit_stdout"
       ELSE /\ WriteFile("result.log", <<>>)
            /\ fault' = <<"UnicodeEncodeError", "result_log">>
            /\ pc' = "crashed"
    /\ Tick
    /\ UNCHANGED aside
    /\ UNCHANGED <<n_read, popen, result, raised, command, skip_validation, is_valid, error_msg, n_validate,
                   stdin_isatty, stdin_input, stdin_data, report_dir, n_mkdir,
                   n_spawn, stdout_data, stderr_data, exit_code, usage,
                   start_time, end_time, out_stdout, out_stderr, ret>>

\* EmitStdout placed before the write of STDOUT.log.
EmitStdoutEarly ==
    /\ pc = "stdout_log"
    /\ out_stdout = <<>>
    /\ out_stdout' = Append(out_stdout, stdout_data)
    /\ pc' = pc
    /\ Tick
    /\ UNCHANGED aside
    /\ UNCHANGED <<n_read, popen, fault, result, raised, command,
                   skip_validation, is_valid, error_msg, n_validate,
                   stdin_isatty, stdin_input, stdin_data, report_dir, n_mkdir,
                   files, n_written, n_spawn, stdout_data, stderr_data,
                   exit_code, usage, start_time, end_time, out_stderr, ret>>

\* Line 245.
EmitStdout ==
    /\ pc = "emit_stdout"
    /\ out_stdout' = Append(out_stdout, stdout_data)
    /\ pc' = "emit_stderr"
    /\ Tick
    /\ UNCHANGED aside
    /\ UNCHANGED <<n_read, popen, fault, result, raised, command, skip_validation, is_valid, error_msg, n_validate,
                   stdin_isatty, stdin_input, stdin_data, report_dir, n_mkdir,
                   files, n_written, n_spawn, stdout_data, stderr_data,
                   exit_code, usage, start_time, end_time, out_stderr, ret>>

\* Line 246.
EmitStderr ==
    /\ pc = "emit_stderr"
    /\ out_stderr' = Append(out_stderr, stderr_data)
    /\ pc' = "return"
    /\ Tick
    /\ UNCHANGED aside
    /\ UNCHANGED <<n_read, popen, fault, result, raised, command, skip_validation, is_valid, error_msg, n_validate,
                   stdin_isatty, stdin_input, stdin_data, report_dir, n_mkdir,
                   files, n_written, n_spawn, stdout_data, stderr_data,
                   exit_code, usage, start_time, end_time, out_stdout, ret>>

\* MainReturn reporting only success or failure instead of the code.
MainReturnFlattened ==
    /\ pc = "return"
    /\ ret' = IF exit_code = 0 THEN 0 ELSE 1
    /\ pc' = "done"
    /\ Tick
    /\ UNCHANGED aside
    /\ UNCHANGED <<n_read, popen, fault, result, raised, command, skip_validation, is_valid,
                   error_msg, n_validate, stdin_isatty, stdin_input,
                   stdin_data, files, n_written, report_dir, n_mkdir, n_spawn,
                   stdout_data, stderr_data, exit_code, usage, start_time,
                   end_time, out_stdout, out_stderr>>

\* Lines 248 and 301-303: run_command returns exit_code and main returns it.
MainReturn ==
    /\ pc = "return"
    /\ ret' = exit_code
    /\ pc' = "done"
    /\ Tick
    /\ UNCHANGED aside
    /\ UNCHANGED <<n_read, popen, fault, result, raised, command, skip_validation, is_valid, error_msg, n_validate,
                   stdin_isatty, stdin_input, stdin_data, report_dir, n_mkdir,
                   files, n_written, n_spawn, stdout_data, stderr_data,
                   exit_code, usage, start_time, end_time, out_stdout,
                   out_stderr>>

\* Lines 156, 189-191, 224-225, 242: mkdir or a write raises OSError, which
\* nothing catches; the wrapper ends with a traceback.
ReportingFailure ==
    /\ pc \in {"mkdir", "stdin_log", "stdout_log", "stderr_log", "result_log"}
    /\ fault' = <<"OSError", pc>>
    /\ pc' = "crashed"
    /\ Tick
    /\ UNCHANGED aside
    /\ UNCHANGED <<n_read, popen, result, raised, command, skip_validation, is_valid, error_msg, n_validate,
                   stdin_isatty, stdin_input, stdin_data, report_dir, n_mkdir,
                   files, n_written, n_spawn, stdout_data, stderr_data,
                   exit_code, usage, start_time, end_time, out_stdout,
                   out_stderr, ret>>

Next ==
    \/ MainNoCommand
    \/ MainValidate
    \/ MainSkipValidation
    \/ MainDeny
    \/ MainReadStdin
    \/ create_report_directory
    \/ WriteStdinLog
    \/ SpawnChild
    \/ SpawnNotFound
    \/ SpawnPermissionDenied
    \/ SpawnOtherError
    \/ Interrupted
    \/ WriteStdoutLog
    \/ WriteStderrLog
    \/ get_resource_usage
    \/ WriteResultLog
    \/ EmitStdout
    \/ EmitStderr
    \/ MainReturn
    \/ ReportingFailure

Spec == Init /\ [][Next]_vars

\* validate_network_args(args) called on its own: lines 98-142.
Returned(r) ==
    /\ is_valid' = r[1]
    /\ error_msg' = r[2]
    /\ n_validate' = n_validate + 1
    /\ pc' = "returned"

CallValidate ==
    /\ pc = "call"
    /\ Returned(validate_network_args(command))
    /\ Tick
    /\ UNCHANGED aside
    /\ UNCHANGED <<n_read, popen, fault, result, raised, command, skip_validation, stdin_isatty, stdin_input,
                   stdin_data, report_dir, n_mkdir, files, n_written, n_spawn,
                   stdout_data, stderr_data, exit_code, usage, start_time,
                   end_time, out_stdout, out_stderr, ret>>

NextValidate == CallValidate

SpecValidate == InitValidate /\ [][NextValidate]_vars

----------------------------------------------------------------------------
(* Two wrapper processes, each running an allowed invocation: lines        *)
(* 297-301 and 150-248 as far as they touch the report root.  The          *)
(* processes share the wall clock and the file system and nothing else;    *)
(* they run in any interleaving, one after the other included.             *)

Procs == {1, 2}

MaxWall == 1

\* The commands the two processes are started with.
PairNames == {T_curl, T_add}

\* The report file run_command writes at a position, and the position that
\* follows.
StageFile(stage) ==
    IF stage = "stdin_log" THEN "STDIN.log"
    ELSE IF stage = "stdout_log" THEN "STDOUT.log"
    ELSE IF stage = "stderr_log" THEN "STDERR.log"
    ELSE "result.log"

StageNext(stage) ==
    IF stage = "stdin_log" THEN "spawn"
    ELSE IF stage = "stdout_log" THEN "stderr_log"
    ELSE IF stage = "stderr_log" THEN "result_log"
    ELSE "done"

InitPair ==
    /\ pc = "pair"
    /\ command = <<>>
    /\ skip_validation = FALSE
    /\ stdin_isatty = TRUE
    /\ stdin_input = <<>>
    /\ Fresh
    /\ wall = 0
    /\ inv \in [Procs -> {[pc |-> "mkdir", name |-> n, dir |-> <<>>] :
                            n \in PairNames}]
    /\ disk = <<>>
    /\ call_arg = <<>>
    /\ call_ret = None

\* Line 147: datetime.now(UTC) moves on by a millisecond.
WallClockTick ==
    /\ wall < MaxWall
    /\ wall' = wall + 1
    /\ UNCHANGED <<inv, disk, call_arg, call_ret>>
    /\ UNCHANGED solo

\* Path.mkdir(parents=True, exist_ok=True): the directory is made if it is
\* not there, and left as it is if it is.
MkdirExistOk(d) ==
    [x \in DOMAIN disk \cup {d} |->
        IF x \in DOMAIN disk THEN disk[x] ELSE [f \in FileNames |-> <<>>]]

\* Lines 297-298 and 150-157 in process p: the directory is named after the
\* millisecond and the sanitised command name, and made.
MadeBy(p, d) ==
    /\ inv' = [inv EXCEPT ![p].pc = "stdin_log", ![p].dir = d]
    /\ disk' = MkdirExistOk(d)

PairCreateReportDirectory(p) ==
    /\ inv[p].pc = "mkdir"
    /\ MadeBy(p, <<wall, SafeName(Basename(inv[p].name))>>)
    /\ UNCHANGED <<wall, call_arg, call_ret>>
    /\ UNCHANGED solo

\* Lines 187-191, 222-225, 231-242 in process p: one report file is
\* written, replacing what the file held.
PairWriteLog(p) ==
    /\ inv[p].pc \in {"stdin_log", "stdout_log", "stderr_log", "result_log"}
    /\ disk' = [disk EXCEPT ![inv[p].dir][StageFile(inv[p].pc)] = Append(@, p)]
    /\ inv' = [inv EXCEPT ![p].pc = StageNext(inv[p].pc)]
    /\ UNCHANGED <<wall, call_arg, call_ret>>
    /\ UNCHANGED solo

\* Lines 194-215 in process p: the child runs, or fails to start.
PairSpawn(p) ==
    /\ inv[p].pc = "spawn"
    /\ inv' = [inv EXCEPT ![p].pc = "stdout_log"]
    /\ UNCHANGED <<wall, disk, call_arg, call_ret>>
    /\ UNCHANGED solo

NextPair ==
    \/ WallClockTick
    \/ \E p \in Procs : PairCreateReportDirectory(p)
    \/ \E p \in Procs : PairWriteLog(p)
    \/ \E p \in Procs : PairSpawn(p)

SpecPair == InitPair /\ [][NextPair]_vars

\* Hosts as the tests of is_allowed_host pass them, beside the piece tokens.
HostSamples == {
    <<"L","O","C","A","L","H","O","S","T">>,
    <<"L","o","c","a","l","h","o","s","t",".","L","o","c","a","l","D","o","m","a","i","n">>,
    <<"i","p","6","-","l","o","c","a","l","h","o","s","t">>,
    <<"I","P","6","-","L","o","o","p","b","a","c","k">>,
    <<"l","o","c","a","l","h","o","s","t",".">>,
    <<"1","2","7",".","2","5","5",".","2","5","5",".","2","5","4">>,
    <<"1","2","7",".","1">>,
    <<"1","0",".","0",".","0",".","1">>,
    <<"1","9","2",".","1","6","8",".","1",".","1">>,
    <<"0",":","0",":","0",":","0",":","0",":","0",":","0",":","1">>,
    <<":",":","1","%","e","t","h","0">>,
    <<"f","e","8","0",":",":","1">>,
    <<"[","[",":",":","1","]">>,
    <<"e","x","a","m","p","l","e",".","o","r","g">>,
    <<" ">> }

HostInputs == PieceTokens \cup HostSamples \cup {<<>>}

\* A direct call of is_allowed_host(host), lines 60-70, as the tests make it.
InitCall ==
    /\ pc = "host_call"
    /\ command = <<>>
    /\ skip_validation = FALSE
    /\ stdin_isatty = TRUE
    /\ stdin_input = <<>>
    /\ Fresh
    /\ wall = 0
    /\ inv = <<>>
    /\ disk = <<>>
    /\ call_arg \in HostInputs
    /\ call_ret = None

CallIsAllowedHost ==
    /\ pc = "host_call"
    /\ call_ret' = is_allowed_host(call_arg)
    /\ pc' = "host_returned"
    /\ UNCHANGED <<wall, inv, disk, call_arg>>
    /\ UNCHANGED <<n_read, popen, fault, result, raised, command,
                   skip_validation, is_valid, error_msg, n_validate,
                   stdin_isatty, stdin_input, stdin_data, report_dir, n_mkdir,
                   files, n_written, n_spawn, stdout_data, stderr_data,
                   exit_code, usage, start_time, end_time, out_stdout,
                   out_stderr, ret, now>>

NextCall == CallIsAllowedHost

SpecCall == InitCall /\ [][NextCall]_vars

----------------------------------------------------------------------------
(* Properties.                                                             *)

\* The wrapper has created or written something outside its own streams.
Touched ==
    \/ n_mkdir > 0
    \/ n_spawn > 0
    \/ \E f \in FileNames : n_written[f] > 0

\* validate_network_args has returned a denial.
ValidationDenied == IF n_validate > 0 THEN ~is_valid ELSE FALSE

\* C1: in main without --skip-validation the validator is evaluated before
\* anything is spawned or created; when it denies, nothing is ever spawned
\* and no report directory is made, and main ends having written exactly the
\* three diagnostic lines (the reason returned by the validator, the
\* loopback-only statement, the --skip-validation hint) and returns 1.
C1_DenialBlocksExecution ==
    ~skip_validation =>
        /\ Touched => (n_validate = 1 /\ ~ValidationDenied)
        /\ ValidationDenied =>
            /\ ~Touched
            /\ pc \in {"deny", "done"}
            /\ pc = "deny" => out_stderr = <<>>
            /\ pc = "done" =>
                /\ ret = 1
                /\ Len(out_stderr) = 3
                /\ out_stderr[1] =
                     <<"autoapprove: Network validation failed: ">>
                        \o validate_network_args(command)[2]
                /\ out_stderr[2] = <<"autoapprove: Only loopback addresses (127.0.0.1, ::1, localhost) are allowed.">>
                /\ out_stderr[3] = <<"autoapprove: Use --skip-validation to bypass this check (not recommended).">>

C1_Witness ==
    /\ pc = "done"
    /\ ~skip_validation
    /\ ValidationDenied
    /\ Len(out_stderr) = 3
    /\ ret = 1

----------------------------------------------------------------------------
(* What a token names, read from the token itself and not from the         *)
(* patterns of the source.                                                 *)

\* The part of a token that can carry an address: the token itself, or for
\* a token that starts with "-" what follows its first "="; None without.
ValuePart(tok) ==
    IF Len(tok) > 0 /\ tok[1] = "-"
    THEN IF Contains(tok, "=") THEN From(tok, Find(tok, "=") + 1) ELSE None
    ELSE tok

\* h is a loopback host: a loopback hostname, or an address in 127.0.0.0/8,
\* or the address ::1.
LoopbackHost(h) == Lower(h) \in LOOPBACK_HOSTNAMES \/ is_loopback_address(h)

HostChars == Letters \cup Digits \cup {".", "-"}

\* s is the text of an IPv4 or IPv6 address.
IsIPLiteral(s) == IsIPv4(s) \/ IsIPv6(s)

\* v is "[" literal "]" or "[" literal "]:port"; the literal.
BracketedLiteral(v) ==
    IF Len(v) > 0 /\ v[1] = "[" /\ Find(v, "]") > 2
       /\ PortSuffix(From(v, Find(v, "]") + 1))
    THEN SubSeq(v, 2, Find(v, "]") - 1)
    ELSE <<>>

\* v is host ":" port; the host.
BeforePort(v) ==
    IF RFind(v, ":") > 1 /\ IsDigits(From(v, RFind(v, ":") + 1))
    THEN SubSeq(v, 1, RFind(v, ":") - 1)
    ELSE <<>>

\* The hosts v names, one for every way of reading it: as a URL, as an IP
\* literal, as a bracketed literal with or without a port, as literal:port,
\* as host:port.
NamedHosts(v) ==
    IF URL_PATTERN(v)
    THEN IF Truthy(extract_host_from_url(v))
         THEN {extract_host_from_url(v)} ELSE {}
    ELSE (IF IsIPLiteral(v) THEN {v} ELSE {})
         \cup (IF IsIPLiteral(BracketedLiteral(v))
               THEN {BracketedLiteral(v)} ELSE {})
         \cup (IF IsIPLiteral(BeforePort(v))
                  \/ (Len(BeforePort(v)) > 0 /\ AllIn(BeforePort(v), HostChars))
               THEN {BeforePort(v)} ELSE {})

\* The token targets a non-loopback endpoint: it names a host, and under
\* every reading the host it names is not a loopback host.
NonLoopbackTarget(tok) ==
    IF ValuePart(tok) = None THEN FALSE
    ELSE /\ NamedHosts(ValuePart(tok)) # {}
         /\ \A h \in NamedHosts(ValuePart(tok)) : ~LoopbackHost(h)

\* The token is a loopback target: it names a host, and under every reading
\* the host it names is a loopback host.
LoopbackTarget(tok) ==
    IF ValuePart(tok) = None THEN FALSE
    ELSE /\ NamedHosts(ValuePart(tok)) # {}
         /\ \A h \in NamedHosts(ValuePart(tok)) : LoopbackHost(h)

\* C2: when validate_network_args allows an argument list, no argument
\* targets a non-loopback endpoint; so without --skip-validation a child is
\* spawned only for argument lists with no non-loopback target.
C2_AllowedMeansLoopbackOnly ==
    /\ (n_validate > 0 /\ ~ValidationDenied) =>
          \A i \in 1..Len(command) : ~NonLoopbackTarget(command[i])
    /\ (n_spawn > 0 /\ ~skip_validation) =>
          \A i \in 1..Len(command) : ~NonLoopbackTarget(command[i])

\* v is written in one of the loopback forms: an address in 127.0.0.0/8 or
\* the address ::1, bare, bracketed or followed by :port; a loopback
\* hostname followed by :port; a URL whose host is one of these.
LoopbackForm(v) ==
    IF URL_PATTERN(v)
    THEN /\ Truthy(extract_host_from_url(v))
         /\ LoopbackHost(extract_host_from_url(v))
    ELSE \/ is_loopback_address(v)
         \/ is_loopback_address(BracketedLiteral(v))
         \/ /\ Len(BeforePort(v)) > 0
            /\ LoopbackHost(BeforePort(v))

\* Every token of the list is a loopback target written in a loopback form.
OnlyLoopbackForms(args) ==
    \A i \in 1..Len(args) :
        IF ValuePart(args[i]) = None THEN FALSE
        ELSE LoopbackForm(ValuePart(args[i]))

\* C3: validate_network_args allows every argument list whose only
\* network-shaped tokens are loopback targets (127.0.0.0/8 or ::1 bare,
\* bracketed or with :port; loopback hostname with :port; URL to one of
\* these); stated for the lists all of whose tokens are such targets.
C3_LoopbackTargetsAllowed ==
    (pc = "returned" /\ OnlyLoopbackForms(command)) => is_valid

\* The token has no URL scheme, is not a dotted quad, and contains neither
\* a bracket nor a colon.
PlainWord(tok) ==
    /\ ~URL_PATTERN(tok)
    /\ ~IPV4_PATTERN(tok)
    /\ ~Contains(tok, "[")
    /\ ~Contains(tok, "]")
    /\ ~Contains(tok, ":")

\* C6: a token that has no URL scheme, is not a dotted quad and contains
\* neither a bracket nor a colon is not network-shaped and never causes
\* denial, so a list made only of such tokens is allowed.
C6_PlainWordsNeverDenied ==
    (pc = "returned" /\ \A i \in 1..Len(command) : PlainWord(command[i]))
        => is_valid

\* The positions of the tokens that one iteration of the loop denies.
DeniedPositions(args) == {i \in 1..Len(args) : ~ValidateArg(args[i])[1]}

\* The result of a call that returned with the leftmost denial at m: it is
\* the denial of args[m], it names what was classified of args[m], and it
\* is the result for the list cut after m.
FirstDenialReturned(args, m) ==
    /\ ~is_valid
    /\ error_msg = ValidateArg(args[m])[2]
    /\ Tail(error_msg) = FlagValue(args[m])
    /\ <<is_valid, error_msg>> = validate_network_args(SubSeq(args, 1, m))

\* C4: validate_network_args goes through the tokens from left to right
\* and stops at the first denied one: the result is denied iff some token
\* is denied, it reports the leftmost denied token (for a flag=value token,
\* the value that was classified), the tokens to its right do not influence
\* it, and with no denied token the result is (allowed, empty reason).
C4_LeftmostDenialWins ==
    pc = "returned" =>
        IF DeniedPositions(command) = {}
        THEN is_valid /\ error_msg = <<>>
        ELSE FirstDenialReturned(command, Min(DeniedPositions(command)))

C4_Witness ==
    /\ pc = "returned"
    /\ Len(command) = 3
    /\ DeniedPositions(command) = {2, 3}
    /\ ValidateArg(command[2]) # ValidateArg(command[3])
    /\ error_msg = ValidateArg(command[2])[2]

\* The call was made on the one token tok and returned r.
ReturnedOn(tok, r) == <<is_valid, error_msg>> = r

\* What the precedence demands for the value v: the first pattern that
\* matches decides, with its own extraction and its own text.  The
\* host:port category is the host:port pattern on a value holding ":".
ByPrecedence(v) ==
    IF URL_PATTERN(v)
    THEN Decide("URL", extract_host_from_url(v), v)
    ELSE IF IPV4_PATTERN(v)
    THEN Decide("IPv4", extract_host_from_address(v), v)
    ELSE IF IPV6_PATTERN(v)
    THEN Decide("IPv6", extract_host_from_address(v), v)
    ELSE IF HOST_PORT_PATTERN(v) /\ Contains(v, ":")
    THEN Decide("Host:port", extract_host_from_address(v), v)
    ELSE Allowed

\* C5: a token is classified by the precedence URL scheme, IPv4 dotted
\* quad, IPv6 shape, host:port; the first category whose pattern matches
\* decides the token alone, allowed or denied with that category's reason,
\* also when the token matches a later pattern as well.
C5_FirstMatchingCategoryDecides ==
    (pc = "returned" /\ Len(command) = 1 /\ ValuePart(command[1]) # None) =>
        ReturnedOn(command[1], ByPrecedence(ValuePart(command[1])))

C5_Witness ==
    /\ pc = "returned"
    /\ Len(command) = 1
    /\ IPV6_PATTERN(command[1])
    /\ HOST_PORT_PATTERN(command[1])
    /\ Contains(command[1], ":")
    /\ ~is_valid
    /\ error_msg[1] = "IPv6 address is not loopback: "

\* The token is a flag: it begins with "-".
IsFlag(tok) == Len(tok) > 0 /\ tok[1] = "-"

\* C7: a token beginning with "-" and holding no "=" is skipped and never
\* causes denial; of one holding "=" only the substring after the first "="
\* is classified, by the same precedence, whatever the flag name is.
C7_FlagValueOnly ==
    /\ (pc = "returned" /\ Len(command) = 1 /\ IsFlag(command[1])) =>
          IF Contains(command[1], "=")
          THEN ReturnedOn(command[1],
                   ByPrecedence(From(command[1], Find(command[1], "=") + 1)))
          ELSE is_valid /\ error_msg = <<>>
    /\ (pc = "returned" /\ ~is_valid) =>
          \E i \in 1..Len(command) :
              IsFlag(command[i]) => Contains(command[i], "=")

C7_Witness ==
    /\ pc = "returned"
    /\ Len(command) = 1
    /\ IsFlag(command[1])
    /\ Len(Split(command[1], "=")) = 3
    /\ ~is_valid
    /\ Tail(error_msg) = From(command[1], Find(command[1], "=") + 1)

\* The synthetic exit code and stderr text of a spawn failure.
SyntheticCode(exc) ==
    IF exc = "FileNotFoundError" THEN 127
    ELSE IF exc = "PermissionError" THEN 126
    ELSE 1

SyntheticStderr(exc, name) ==
    IF exc = "FileNotFoundError"
    THEN <<"Command not found: ">> \o name \o <<"\n">>
    ELSE IF exc = "PermissionError"
    THEN <<"Permission denied: ">> \o name \o <<"\n">>
    ELSE <<"Error executing command: ", "detail", "\n">>

\* The spawn was attempted and failed.
SpawnFailed == IF n_spawn > 0 THEN raised # "none" ELSE FALSE

\* The four report files were each written once.
AllFourWritten == \A f \in FileNames : n_written[f] = 1

\* What run_command holds and has reported after the failure exc.
FailureReported(exc) ==
    /\ exit_code = SyntheticCode(exc)
    /\ stdout_data = <<>>
    /\ stderr_data = SyntheticStderr(exc, command[1])
    /\ n_written["STDOUT.log"] > 0 => files["STDOUT.log"] = <<>>
    /\ n_written["STDERR.log"] > 0 =>
          files["STDERR.log"] = SyntheticStderr(exc, command[1])
    /\ pc \in {"emit_stdout", "emit_stderr", "return", "done"} =>
          /\ AllFourWritten
          /\ files["result.log"][3] = <<"exit_code", SyntheticCode(exc)>>
    /\ pc = "done" => ret = SyntheticCode(exc)

\* C8: a spawn failure becomes a synthetic outcome and the pipeline goes on:
\* not found gives 127 and "Command not found: <name>", permission denied
\* 126 and "Permission denied: <name>", any other fault 1 and "Error
\* executing command: <detail>"; stdout is empty, the four report files are
\* written by the time run_command returns, and the spawn is attempted
\* once only.
C8_SpawnFailureSynthesised ==
    /\ n_spawn <= 1
    /\ SpawnFailed =>
          /\ raised \in {"FileNotFoundError", "PermissionError", "Exception"}
          /\ fault # <<"UnicodeEncodeError", "except">>
          /\ FailureReported(raised)

\* The child was spawned successfully.
SpawnSucceeded == IF n_spawn > 0 THEN raised = "none" ELSE FALSE

\* C9: when the child was spawned, run_command returns the child's own exit
\* status unchanged, result.log records that same value as exit_code, and
\* main returns what run_command returned.
C9_ChildExitCodePropagated ==
    SpawnSucceeded =>
        /\ exit_code = result.returncode
        /\ n_written["result.log"] > 0 =>
              \A i \in 1..Len(files["result.log"]) :
                  files["result.log"][i][1] = "exit_code" =>
                      files["result.log"][i][2] = result.returncode
        /\ pc = "done" =>
              /\ ret = result.returncode
              /\ n_written["result.log"] = 1
              /\ files["result.log"][3] = <<"exit_code", result.returncode>>

C9_Witness ==
    /\ pc = "done"
    /\ SpawnSucceeded
    /\ result.returncode = 2
    /\ ret = 2
    /\ files["result.log"][3] = <<"exit_code", 2>>

\* Validation allowed execution: it was evaluated and did not deny.
ValidationAllowed == IF n_validate > 0 THEN is_valid ELSE FALSE

\* C10 as the specification states it: every invocation handled by main
\* yields exactly one report directory, exactly one validation result, and
\* exactly one result.log if and only if validation allowed execution.
C10_OnePerInvocation ==
    pc = "done" =>
        /\ n_mkdir = 1
        /\ n_validate = 1
        /\ n_written["result.log"] = 1 <=> ValidationAllowed

\* Main went on to run the command: a command was given, and validation
\* allowed it or was skipped.
Executed == command # <<>> /\ (skip_validation \/ ValidationAllowed)

\* C10, amended: an invocation that main completes evaluates validation
\* exactly once, unless --skip-validation or no command was given, and then
\* never; it yields exactly one report directory and exactly one result.log
\* if and only if a command was given and validation allowed it or was
\* skipped, and otherwise neither; nothing is ever made twice.
C10_OnePerExecutedInvocation ==
    /\ n_validate <= 1 /\ n_mkdir <= 1 /\ n_written["result.log"] <= 1
    /\ pc = "done" =>
          /\ n_validate = (IF command = <<>> \/ skip_validation THEN 0 ELSE 1)
          /\ n_mkdir = (IF Executed THEN 1 ELSE 0)
          /\ n_written["result.log"] = (IF Executed THEN 1 ELSE 0)

C10_Witness ==
    /\ pc = "done"
    /\ n_validate = 1
    /\ ValidationDenied
    /\ n_mkdir = 0
    /\ n_written["result.log"] = 0

\* The processes that wrote into directory d.
WritersOf(d) ==
    {p \in Procs :
        \E f \in FileNames : \E i \in 1..Len(disk[d][f]) : disk[d][f][i] = p}

\* C11: any two allowed invocations, one after the other or side by side,
\* obtain distinct report directories; so every report directory holds the
\* files of one invocation only and no file is written over.
C11_DistinctReportDirectories ==
    /\ \A p, q \in Procs :
          (p # q /\ inv[p].dir # <<>> /\ inv[q].dir # <<>>) =>
              inv[p].dir # inv[q].dir
    /\ \A d \in DOMAIN disk :
          /\ Cardinality(WritersOf(d)) <= 1
          /\ \A f \in FileNames : Len(disk[d][f]) <= 1

\* The steps that create the report directory or write into it.
ReportingSteps == {"mkdir", "stdin_log", "stdout_log", "stderr_log", "result_log"}

\* The wrapper ended with an uncaught exception raised while the report
\* directory was created or written.
ReportingFault == IF fault = <<>> THEN FALSE ELSE fault[2] \in ReportingSteps

\* C12: every run of main ends by returning an integer exit code, except
\* when the report directory cannot be created or written; no other event
\* (a spawn failure of any kind, the child's exit code or output, missing
\* resource accounting) ends the wrapper with an uncaught exception, and a
\* run that attempted a spawn ends with all four report files written.
C12_OnlyReportingFaultsAbort ==
    /\ pc = "crashed" => ReportingFault
    /\ pc = "done" => (fault = <<>> /\ ret \in Int)
    /\ (pc \in {"done", "crashed"} /\ n_spawn > 0 /\ ~ReportingFault) =>
          AllFourWritten

\* The exit code run_command owes: the child's, or the synthetic code of
\* the spawn failure.
OwedExitCode ==
    IF raised = "none" THEN result.returncode ELSE SyntheticCode(raised)

\* C13: with --skip-validation validate_network_args is never evaluated;
\* the command is spawned and reported whatever its arguments are, tokens
\* naming non-loopback hosts included, and main returns the child's exit
\* code or the synthetic code of the spawn failure, never a denial.
C13_SkipValidationBypasses ==
    skip_validation =>
        /\ n_validate = 0
        /\ pc # "deny"
        /\ is_valid = None /\ error_msg = None
        /\ \A i \in 1..Len(out_stderr) :
              out_stderr[i] \notin {DenialLines(<<>>)[2], DenialLines(<<>>)[3]}
        /\ (pc = "done" /\ command # <<>>) =>
              /\ n_spawn = 1
              /\ popen.args = command
              /\ AllFourWritten
              /\ ret = OwedExitCode

C13_Witness ==
    /\ pc = "done"
    /\ skip_validation
    /\ n_validate = 0
    /\ n_spawn = 1
    /\ ~validate_network_args(command)[1]
    /\ \E i \in 1..Len(command) : NonLoopbackTarget(command[i])
    /\ AllFourWritten
    /\ ret = 2

\* result.log has its text, and its first line is the command line: the
\* tokens of command joined by single spaces.
CommandRecorded ==
    Len(files["result.log"]) > 0 =>
        files["result.log"][1] = <<"command", Join(command)>>

\* C14: the command that is spawned is the token sequence main was given
\* after its own flags, the same tokens in the same order; validation never
\* changes the argument list, a flag=value token reaches the child whole;
\* and result.log records that same sequence as the command line.
C14_CommandPassedVerbatim ==
    /\ [][command' = command]_vars
    /\ [](n_spawn > 0 => popen.args = command)
    /\ [](n_written["result.log"] > 0 => CommandRecorded)

C14_Witness ==
    /\ pc = "done"
    /\ n_validate = 1
    /\ n_spawn = 1
    /\ Len(command) = 2
    /\ command[1] = T_curl
    /\ IsFlag(command[2]) /\ Contains(command[2], "=")
    /\ popen.args = command
    /\ files["result.log"][1] = <<"command", Join(command)>>

\* Main is past lines 292-294.
PastReadStdin ==
    /\ pc \notin {"main", "deny", "read_stdin"}
    /\ pc = "done" => n_mkdir > 0

\* Main read its standard input only if it is no terminal, all of it, and
\* passed what it read to the child; STDIN.log holds what was passed, and
\* is empty when nothing was.
StdinForwarded ==
    /\ n_read = (IF stdin_isatty \/ ~PastReadStdin THEN 0 ELSE 1)
    /\ PastReadStdin =>
          stdin_data = (IF stdin_isatty THEN None ELSE stdin_input)
    /\ n_spawn > 0 => popen.input = stdin_data
    /\ n_written["STDIN.log"] > 0 =>
          files["STDIN.log"] = (IF stdin_isatty THEN <<>> ELSE stdin_data)

\* The child ran and wrote to its stdout exactly what was on its stdin.
ChildEchoed ==
    IF SpawnSucceeded THEN result.stdout = ChildStdin(popen.input) ELSE FALSE

\* STDOUT.log is written and equals STDIN.log.
LogsAgree ==
    n_written["STDOUT.log"] > 0 => files["STDOUT.log"] = files["STDIN.log"]

\* C15 as the specification states it: main reads its standard input only
\* when it is no terminal, reads all of it and passes those bytes to the
\* child; STDIN.log holds the bytes supplied to the child and is empty when
\* there were none; so for a child that echoes its input STDOUT.log equals
\* STDIN.log.
C15_StdinLogHoldsChildInput ==
    /\ StdinForwarded
    /\ ChildEchoed => LogsAgree

\* C15, amended: STDIN.log holds the bytes main read and passed, and is
\* empty when main passed none; the logs of an echoing child agree when
\* standard input is no terminal.  On a terminal the child inherits it and
\* what it reads there is in no log of its input.
C15_StdinLogHoldsWhatMainRead ==
    /\ StdinForwarded
    /\ (ChildEchoed /\ ~stdin_isatty) => LogsAgree

C15_Witness ==
    /\ pc = "done"
    /\ ~stdin_isatty
    /\ stdin_data = <<"i", "n">>
    /\ ChildEchoed
    /\ files["STDIN.log"] = <<"i", "n">>
    /\ files["STDOUT.log"] = <<"i", "n">>

\* h without the "[" and "]" characters at its two ends.
Unbracketed(h) ==
    IF \A i \in 1..Len(h) : h[i] \in {"[", "]"} THEN <<>>
    ELSE SubSeq(h,
                Min({i \in 1..Len(h) : h[i] \notin {"[", "]"}}),
                Max({i \in 1..Len(h) : h[i] \notin {"[", "]"}}))

\* C16 as the specification states it: is_allowed_host(h) is true exactly
\* when the lowercase form of h is a loopback hostname or h parses as an
\* address in 127.0.0.0/8 or as ::1, and false for every other string.
C16_AllowedIffLoopbackHost ==
    pc = "host_returned" => (call_ret = LoopbackHost(call_arg))

\* C16, amended: is_allowed_host(h) is true exactly when h, with the "["
\* and "]" characters at its two ends removed, is a loopback hostname in
\* any letter case or parses as an address in 127.0.0.0/8 or as ::1; for
\* every other string it returns false, and it returns for every string.
C16_AllowedIffUnbracketedLoopbackHost ==
    pc = "host_returned" =>
        /\ call_ret \in BOOLEAN
        /\ call_ret = LoopbackHost(Unbracketed(call_arg))

C16_Witness ==
    /\ pc = "host_returned"
    /\ call_arg = <<"[", ":", ":", "1", "]">>
    /\ call_ret = TRUE

\* The category a reason text names, "none" when it names none.
CategoryNamed(text) ==
    IF text = "URL contains non-loopback host: " THEN "URL"
    ELSE IF text = "IPv4 address is not loopback: " THEN "IPv4"
    ELSE IF text = "IPv6 address is not loopback: " THEN "IPv6"
    ELSE IF text = "Host:port contains non-loopback host: " THEN "Host:port"
    ELSE "none"

\* The pattern of category cat matches v.
PatternMatches(cat, v) ==
    IF cat = "URL" THEN URL_PATTERN(v)
    ELSE IF cat = "IPv4" THEN IPV4_PATTERN(v)
    ELSE IF cat = "IPv6" THEN IPV6_PATTERN(v)
    ELSE IF cat = "Host:port" THEN HOST_PORT_PATTERN(v) /\ Contains(v, ":")
    ELSE FALSE

\* The call returned; the reason is empty exactly when the result is
\* allowed, and a denial's reason names a category whose pattern matches
\* what was classified of the leftmost denied token and ends in text.
ReasonNames(text) ==
    /\ (error_msg = <<>>) <=> is_valid
    /\ ~is_valid =>
          /\ Len(error_msg) > 0
          /\ PatternMatches(CategoryNamed(error_msg[1]),
                            ValuePart(command[Min(DeniedPositions(command))]))
          /\ Tail(error_msg) = text

\* C17 as the specification states it: the reason is empty iff the result
\* is allowed, and a denial's reason names the category that matched and
\* the exact offending token as it appears in the argument list.
C17_ReasonNamesExactToken ==
    pc = "returned" =>
        ReasonNames(IF is_valid THEN <<>>
                    ELSE command[Min(DeniedPositions(command))])

\* C17, amended: the reason is empty iff the result is allowed, and a
\* denial's reason names the category that matched and the text that was
\* classified: the offending token itself, or for a token that begins with
\* "-" only its part after the first "=".
C17_ReasonNamesClassifiedText ==
    pc = "returned" =>
        ReasonNames(IF is_valid THEN <<>>
                    ELSE ValuePart(command[Min(DeniedPositions(command))]))

C17_Witness ==
    /\ pc = "returned"
    /\ command = <<T_curl, T_flag_evil>>
    /\ ~is_valid
    /\ error_msg = <<"Host:port contains non-loopback host: ">>
                       \o <<"e","v","i","l",".","c","o","m",":","8","0">>

ResultKeys ==
    <<"command", "working_directory", "exit_code", "start_time", "end_time",
      "duration_seconds", "cpu_user_time_seconds", "cpu_system_time_seconds",
      "max_memory_kb">>

\* content is nine lines whose keys are those of ResultKeys, in that order.
NineLines(content) ==
    /\ Len(content) = 9
    /\ \A i \in 1..9 : content[i][1] = ResultKeys[i]

\* The wrapper has ended, it had entered run_command, and the file system
\* refused nothing.
RanToItsEnd ==
    /\ pc \in {"done", "crashed"}
    /\ n_mkdir > 0
    /\ IF fault = <<>> THEN TRUE ELSE fault[1] # "OSError"

\* C18: for every invocation that reaches run_command, the child having
\* run or the spawn having failed, result.log is written exactly once, never
\* rewritten, and holds the nine "key: value" lines in the fixed order.
C18_ResultLogNineLinesOnce ==
    /\ n_written["result.log"] <= 1
    /\ RanToItsEnd =>
          /\ n_written["result.log"] = 1
          /\ NineLines(files["result.log"])

\* Nothing but main's own streams has been used: no validation, no read of
\* standard input, no report directory, no file, no child.
NothingDone ==
    /\ n_validate = 0
    /\ n_read = 0
    /\ stdin_data = None
    /\ n_mkdir = 0
    /\ \A f \in FileNames : n_written[f] = 0
    /\ n_spawn = 0
    /\ popen = None

\* C19: invoked with no command, main prints the usage and returns 1, and in
\* that run validation is not evaluated, standard input is not read, no
\* report directory is created and no child process is spawned.
C19_NoCommandPrintsUsage ==
    command = <<>> =>
        /\ NothingDone
        /\ pc \in {"main", "done"}
        /\ pc = "done" =>
              /\ out_stdout = << <<"usage">> >>
              /\ out_stderr = <<>>
              /\ ret = 1

C19_Witness ==
    /\ command = <<>>
    /\ pc = "done"
    /\ ~stdin_isatty
    /\ stdin_input = <<"i", "n">>
    /\ skip_validation = FALSE
    /\ ret = 1

\* The report files run_command writes after the child.
LaterFiles == {"STDOUT.log", "STDERR.log", "result.log"}

\* C20: within one allowed invocation the steps occur in a fixed order.
\* The report directory is created and STDIN.log is written before the
\* child is spawned; STDOUT.log, STDERR.log and result.log are written only
\* after the child has ended or failed to spawn; the resource usage is
\* sampled after that and before result.log is written, which records it;
\* all three files are written before anything captured is re-emitted; the
\* exit code is returned only after both re-emissions.  So a wrapper that
\* is interrupted while the child runs leaves STDIN.log alone in the
\* directory.
C20_StepsInFixedOrder ==
    /\ n_written["STDIN.log"] > 0 => n_mkdir = 1
    /\ n_spawn > 0 => (n_mkdir = 1 /\ n_written["STDIN.log"] = 1)
    /\ pc = "spawn" => \A f \in LaterFiles : n_written[f] = 0
    /\ \A f \in LaterFiles : n_written[f] > 0 => n_spawn = 1
    /\ pc = "rusage" => (n_spawn = 1 /\ n_written["result.log"] = 0)
    /\ (n_written["result.log"] > 0 /\ Len(files["result.log"]) = 9) =>
          /\ files["result.log"][7][2] = usage.user_time_seconds
          /\ files["result.log"][8][2] = usage.system_time_seconds
          /\ files["result.log"][9][2] = usage.max_memory_kb
    /\ (n_mkdir > 0 /\ (out_stdout # <<>> \/ out_stderr # <<>>)) =>
          \A f \in LaterFiles : n_written[f] = 1
    /\ (n_mkdir > 0 /\ pc = "done") =>
          /\ Len(out_stdout) = 1
          /\ Len(out_stderr) = 1
          /\ ret \in Int
    /\ pc = "interrupted" =>
          /\ n_written["STDIN.log"] = 1
          /\ \A f \in LaterFiles : n_written[f] = 0 /\ files[f] = None
          /\ out_stdout = <<>>
          /\ out_stderr = <<>>

C20_Witness ==
    /\ pc = "done"
    /\ n_mkdir = 1
    /\ n_spawn = 1
    /\ \A f \in FileNames : n_written[f] = 1
    /\ Len(files["result.log"]) = 9
    /\ Len(out_stdout) = 1
    /\ Len(out_stderr) = 1
    /\ stdout_data = <<"o", "u", "t">>

\* The wrapper was interrupted while the child ran.
C20_InterruptedWhileChildRuns ==
    /\ pc = "interrupted"
    /\ n_spawn = 1
    /\ n_written["STDIN.log"] = 1

\* v matches the URL scheme pattern and no hostname can be extracted from
\* it: urlparse rejects it, or its authority names no host.
HostlessURL(v) ==
    IF v = None THEN FALSE
    ELSE /\ URL_PATTERN(v)
         /\ IF UrlParseFails(v) THEN TRUE ELSE UrlHostname(v) = None

HostlessPositions(args) ==
    {i \in 1..Len(args) : HostlessURL(ValuePart(args[i]))}

\* args without its tokens at the positions of S.
RECURSIVE Without(_, _, _)
Without(args, S, i) ==
    IF i > Len(args) THEN <<>>
    ELSE (IF i \in S THEN <<>> ELSE <<args[i]>>) \o Without(args, S, i + 1)

\* C21: a token that matches the URL scheme pattern and yields no hostname
\* is treated as allowed.  A list of such tokens is allowed with an empty
\* reason; in any list a denial names another token, and the result is the
\* one the list has without these tokens, so no later category has been
\* applied to them.
C21_HostlessURLAllowed ==
    (pc = "returned" /\ HostlessPositions(command) # {}) =>
        /\ HostlessPositions(command) = 1..Len(command) =>
              (is_valid /\ error_msg = <<>>)
        /\ ~is_valid =>
              \A i \in HostlessPositions(command) :
                  Tail(error_msg) # ValuePart(command[i])
        /\ <<is_valid, error_msg>> =
              validate_network_args(
                  Without(command, HostlessPositions(command), 1))

C21_Witness ==
    /\ pc = "returned"
    /\ Len(command) = 1
    /\ UrlParseFails(command[1])
    /\ IPV6_PATTERN(UrlNetloc(command[1]))
    /\ is_valid
    /\ error_msg = <<>>

====
